---------------------------- MODULE Spec2Model ----------------------------
(***************************************************************************)
(* NexaClient (nexaclient): the binary-protocol client of NexaDB.          *)
(*                                                                         *)
(* The module models the client object of src/unnamed/part_001 as a state  *)
(* machine: its fields, the sockets it creates, the timers it arms, the    *)
(* promises it hands out, and one action per public call or event handler. *)
(* Node's event loop runs every handler to completion, so each handler is  *)
(* one atomic action; promise continuations that the handler's own         *)
(* resolve/reject calls trigger inside the client are folded into it.      *)
(*                                                                         *)
(* Environment assumptions (Node's net.Socket and the application):        *)
(*  - the application keeps an 'error' listener on the client, as the      *)
(*    README's Events section shows, so emit('error') never throws;        *)
(*  - socket.destroy() emits 'close' (without 'error') at the end of the   *)
(*    current loop iteration; an 'error' is followed by 'close' in the     *)
(*    same iteration.  Between the two only application code (promise      *)
(*    continuations, listeners) runs: no socket event and no timer;        *)
(*  - socket.end() on a socket whose 'close' was already emitted does      *)
(*    nothing and emits nothing.                                           *)
(***************************************************************************)
EXTENDS Integers, Sequences, FiniteSets, TLC

(***************************************************************************)
(* Bounds of the model.                                                    *)
(***************************************************************************)
\* Sockets net.createConnection may hand out.
MaxSockets == 2
\* Requests _sendMessage may accept (the cap of this.requestId).
MaxRequests == 2
\* connect() calls that may wait on one in-flight attempt.
MaxWaiters == 1
\* Frames the server may write unasked on one connection.
MaxPushes == 1
\* Frames of a stream in the framing specification.
FrMaxFrames == 2
\* The cap of this.requestId in the dispatch specification.
DiMaxRequests == 3
\* The cap of this.requestId in the header specification.
HdMaxRequests == 3
\* The primitive values the trees of the TOON specification are built from.
ToMaxLeaves == 8
\* The mappings a tree of the TOON specification may be nested in.
ToMaxDepth == 1

(***************************************************************************)
(* Protocol constants.                                                     *)
(***************************************************************************)
\* 0x4E455841, "NEXA".
MAGIC == 1313167425
VERSION == 1
MSG_CONNECT == 1
MSG_READ == 3
MSG_PING == 9
MSG_SUCCESS == 129
MSG_ERROR == 130
MSG_NOT_FOUND == 131
MSG_DUPLICATE == 132
MSG_PONG == 136
HEADER_LEN == 12
\* The default indentSize of TOONSerializer.
INDENT_SIZE == 2
\* A magic that differs from MAGIC in its last byte ("NEXB").
BAD_MAGIC == MAGIC + 1

Socks == 1..MaxSockets

(***************************************************************************)
(* Bytes and buffers.  A Buffer is a sequence of bytes (0..255).           *)
(***************************************************************************)
\* Buffer.writeUInt32BE: the four big-endian bytes of n.
WriteUInt32BE(n) ==
    << (n \div 16777216) % 256, (n \div 65536) % 256, (n \div 256) % 256, n % 256 >>

\* Buffer.readUInt32BE at a 0-based offset.  Evaluated only when the first
\* byte is below 128; the callers decide the other case without the sum.
ReadUInt32BE(b, off) ==
    b[off + 1] * 16777216 + b[off + 2] * 65536 + b[off + 3] * 256 + b[off + 4]

\* Buffer.readUInt8 at a 0-based offset.
ReadUInt8(b, off) == b[off + 1]

\* Buffer.slice(from, to), 0-based, end exclusive, clamped to the length.
Slice(b, from, to) ==
    LET hi == IF to > Len(b) THEN Len(b) ELSE to
    IN  IF from >= hi THEN <<>> ELSE SubSeq(b, from + 1, hi)

(***************************************************************************)
(* MessagePack (msgpack-lite), on the values the model uses.  A decoded    *)
(* value is named by its JavaScript text.                                  *)
(***************************************************************************)
CredentialBytes ==
    << 130, 168, 117, 115, 101, 114, 110, 97, 109, 101, 164, 114, 111, 111, 116,
       168, 112, 97, 115, 115, 119, 111, 114, 100, 169, 110, 101, 120, 97, 100,
       98, 49, 50, 51 >>

ErrorBytes == << 129, 165, 101, 114, 114, 111, 114, 164, 98, 111, 111, 109 >>

\* { error: 'Not found: k' }
NotFoundTextBytes ==
    << 129, 165, 101, 114, 114, 111, 114, 172, 78, 111, 116, 32, 102, 111, 117,
       110, 100, 58, 32, 107 >>

\* { collection: 'c', key: 'k' }
ReadBytes ==
    << 130, 170, 99, 111, 108, 108, 101, 99, 116, 105, 111, 110, 161, 99, 163,
       107, 101, 121, 161, 107 >>

\* msgpack.encode(data) for the request payloads the model sends.
MsgpackEncode(data) ==
    CASE data = "{username:root,password:nexadb123}" -> CredentialBytes
      [] data = "{error:boom}" -> ErrorBytes
      [] data = "{error:Not found: k}" -> NotFoundTextBytes
      [] data = "{collection:c,key:k}" -> ReadBytes
      [] data = "{}" -> << 128 >>
      [] data = "null" -> << 192 >>

\* Whether msgpack.decode(bytes) returns (TRUE) or throws (FALSE): an empty
\* or truncated buffer throws BUFFER_SHORTAGE, an unassigned type byte throws.
MsgpackDecodes(bytes) ==
    /\ Len(bytes) > 0
    /\ \/ bytes[1] < 128
       \/ bytes[1] = 128
       \/ bytes[1] = 192
       \/ bytes = ErrorBytes
       \/ bytes = NotFoundTextBytes
       \/ bytes = ReadBytes
       \/ bytes = CredentialBytes

\* msgpack.decode(bytes) where it returns: the first value of the buffer.
MsgpackDecode(bytes) ==
    CASE bytes[1] < 128 -> ToString(bytes[1])
      [] bytes[1] = 128 -> "{}"
      [] bytes[1] = 192 -> "null"
      [] bytes = ErrorBytes -> "{error:boom}"
      [] bytes = NotFoundTextBytes -> "{error:Not found: k}"
      [] bytes = ReadBytes -> "{collection:c,key:k}"
      [] bytes = CredentialBytes -> "{username:root,password:nexadb123}"

(***************************************************************************)
(* Frames.                                                                 *)
(***************************************************************************)
\* A header whose length field counts the header bytes too.
EncodeFrameCountingHeader(magic, msgType, payload) ==
    WriteUInt32BE(magic) \o << VERSION, msgType, 0, 0 >>
        \o WriteUInt32BE(Len(payload) + HEADER_LEN) \o payload

\* The 12-byte header and the payload, as _sendMessage builds them.
EncodeFrame(magic, msgType, payload) ==
    WriteUInt32BE(magic) \o << VERSION, msgType, 0, 0 >>
        \o WriteUInt32BE(Len(payload)) \o payload

\* The header test with the 12 header bytes left out of the comparison.
NeedMoreDataOfPayloadOnly(buf) ==
    \/ ReadUInt8(buf, 8) >= 128
    \/ Len(buf) < ReadUInt32BE(buf, 8)

\* The header test of the _handleData loop: the buffer holds fewer bytes
\* than the header declares (payloadLen is an unsigned 32-bit number).
NeedMoreData(buf) ==
    \/ ReadUInt8(buf, 8) >= 128
    \/ Len(buf) - HEADER_LEN < ReadUInt32BE(buf, 8)

\* A magic test that accepts every header.
MagicNeverMismatches(buf) == FALSE

\* magic !== MAGIC on the first four bytes of the buffer.
MagicMismatch(buf) ==
    \/ ReadUInt8(buf, 0) >= 128
    \/ ReadUInt32BE(buf, 0) # MAGIC

\* The slicing loop of _handleData on a buffer: the frames it cuts, in
\* order, the bytes it leaves, and whether it stopped on a magic mismatch.
RECURSIVE SliceFrames(_, _)
SliceFrames(buf, cut) ==
    IF Len(buf) < HEADER_LEN
    THEN [buffer |-> buf, frames |-> cut, corrupt |-> FALSE]
    ELSE IF NeedMoreData(buf)
    THEN [buffer |-> buf, frames |-> cut, corrupt |-> FALSE]
    ELSE IF MagicMismatch(buf)
    THEN [buffer |-> buf, frames |-> cut, corrupt |-> TRUE]
    ELSE LET payloadLen == ReadUInt32BE(buf, 8)
             frame == [msgType |-> ReadUInt8(buf, 5),
                       payload |-> Slice(buf, HEADER_LEN, HEADER_LEN + payloadLen)]
         IN  SliceFrames(Slice(buf, HEADER_LEN + payloadLen, Len(buf)),
                         Append(cut, frame))


(***************************************************************************)
(* TOON values and text.  A JavaScript value is a record [t, v]: t names   *)
(* its type and v holds a boolean, a number in tenths (15 is 1.5), a       *)
(* string, the entries << key, value >> of an object in insertion order,   *)
(* or the items of an array.  A string is a sequence of characters.        *)
(***************************************************************************)
Undefined == [t |-> "undefined", v |-> 0]
Null == [t |-> "null", v |-> 0]
Bool(b) == [t |-> "bool", v |-> b]
Num(tenths) == [t |-> "num", v |-> tenths]
Str(s) == [t |-> "str", v |-> s]
Obj(entries) == [t |-> "obj", v |-> entries]
Arr(items) == [t |-> "arr", v |-> items]

\* typeof x === 'object' && x !== null && !Array.isArray(x)
IsObject(x) == x.t = "obj"

\* Array.isArray(x)
IsArray(x) == x.t = "arr"

\* typeof x !== 'object' || x === null
IsPrimitive(x) == x.t \notin {"obj", "arr"}

\* Object.keys(obj)
Keys(obj) == [i \in DOMAIN obj.v |-> obj.v[i][1]]

HasKey(entries, key) == \E i \in DOMAIN entries : entries[i][1] = key

\* obj[key]
Lookup(obj, key) ==
    IF HasKey(obj.v, key)
    THEN obj.v[CHOOSE i \in DOMAIN obj.v : obj.v[i][1] = key][2]
    ELSE Undefined

\* obj[key] = value on the entries of obj.
SetKey(entries, key, value) ==
    IF HasKey(entries, key)
    THEN [i \in DOMAIN entries |->
             IF entries[i][1] = key THEN << key, value >> ELSE entries[i]]
    ELSE Append(entries, << key, value >>)

\* Value equality of two trees: the same type and, for an object, the same
\* keys with equal values, for an array, equal items in order.
RECURSIVE ValueEq(_, _)
ValueEq(a, b) ==
    /\ a.t = b.t
    /\ CASE a.t \in {"null", "undefined"} -> TRUE
         [] a.t \in {"bool", "num", "str"} -> a.v = b.v
         [] a.t = "arr" ->
               /\ Len(a.v) = Len(b.v)
               /\ \A i \in DOMAIN a.v : ValueEq(a.v[i], b.v[i])
         [] a.t = "obj" ->
               /\ Len(a.v) = Len(b.v)
               /\ \A i \in DOMAIN a.v :
                     /\ HasKey(b.v, a.v[i][1])
                     /\ ValueEq(a.v[i][2], Lookup(b, a.v[i][1]))

WhiteSpace == {" ", "\n"}

\* String.prototype.trimStart, trimEnd, trim.
RECURSIVE TrimStart(_)
TrimStart(s) ==
    IF s # <<>> /\ Head(s) \in WhiteSpace THEN TrimStart(Tail(s)) ELSE s

RECURSIVE TrimEnd(_)
TrimEnd(s) ==
    IF s # <<>> /\ s[Len(s)] \in WhiteSpace
    THEN TrimEnd(SubSeq(s, 1, Len(s) - 1))
    ELSE s

Trim(s) == TrimEnd(TrimStart(s))

\* String.prototype.includes for a one-character argument.
Includes(s, c) == \E i \in DOMAIN s : s[i] = c

\* String.prototype.indexOf for a one-character argument, 0-based, -1 when
\* the character does not occur.
IndexOf(s, c) ==
    IF Includes(s, c)
    THEN (CHOOSE i \in DOMAIN s : s[i] = c /\ \A j \in 1..(i - 1) : s[j] # c) - 1
    ELSE -1

\* String.prototype.substring(from, to) for 0 <= from <= to.
Substring(s, from, to) ==
    LET hi == IF to > Len(s) THEN Len(s) ELSE to
    IN  IF from >= hi THEN <<>> ELSE SubSeq(s, from + 1, hi)

\* String.prototype.split for a one-character separator.
RECURSIVE Split(_, _)
Split(s, sep) ==
    IF ~Includes(s, sep) THEN << s >>
    ELSE LET i == IndexOf(s, sep)
         IN  << Substring(s, 0, i) >> \o Split(Substring(s, i + 1, Len(s)), sep)

\* Array.prototype.join.
RECURSIVE Join(_, _)
Join(parts, sep) ==
    IF parts = <<>> THEN <<>>
    ELSE IF Len(parts) = 1 THEN parts[1]
    ELSE parts[1] \o sep \o Join(Tail(parts), sep)

\* ' '.repeat(n)
RECURSIVE Spaces(_)
Spaces(n) == IF n <= 0 THEN <<>> ELSE << " " >> \o Spaces(n - 1)

DigitChars == << "0", "1", "2", "3", "4", "5", "6", "7", "8", "9" >>

IsDigit(c) == \E d \in DOMAIN DigitChars : DigitChars[d] = c

DigitValue(c) == (CHOOSE d \in DOMAIN DigitChars : DigitChars[d] = c) - 1

\* String(n) for a natural number n.
RECURSIVE NatToString(_)
NatToString(n) ==
    IF n < 10 THEN << DigitChars[n + 1] >>
    ELSE NatToString(n \div 10) \o << DigitChars[(n % 10) + 1] >>

\* The number a run of decimal digits denotes.
RECURSIVE DigitsValue(_)
DigitsValue(s) ==
    IF s = <<>> THEN 0
    ELSE DigitsValue(SubSeq(s, 1, Len(s) - 1)) * 10 + DigitValue(s[Len(s)])

\* String(value) for a number held in tenths.
NumberToString(tenths) ==
    LET a == IF tenths < 0 THEN -tenths ELSE tenths
    IN  (IF tenths < 0 THEN << "-" >> ELSE <<>>)
            \o NatToString(a \div 10)
            \o (IF a % 10 = 0 THEN <<>> ELSE << ".", DigitChars[(a % 10) + 1] >>)

AllDigits(s) == s # <<>> /\ \A i \in DOMAIN s : IsDigit(s[i])

\* /^-?\d+(\.\d+)?$/.test(s)
IsNumberText(s) ==
    LET u == IF s # <<>> /\ s[1] = "-" THEN Tail(s) ELSE s
        dot == IndexOf(u, ".")
    IN  IF dot = -1 THEN AllDigits(u)
        ELSE AllDigits(Substring(u, 0, dot)) /\ AllDigits(Substring(u, dot + 1, Len(u)))

\* parseFloat / parseInt of a text IsNumberText accepts, in tenths.  The
\* texts of the model carry at most one fractional digit.
ParseNumber(s) ==
    LET u == IF s[1] = "-" THEN Tail(s) ELSE s
        dot == IndexOf(u, ".")
        a == IF dot = -1 THEN DigitsValue(u) * 10
             ELSE DigitsValue(Substring(u, 0, dot)) * 10 + DigitValue(u[dot + 2])
    IN  IF s[1] = "-" THEN -a ELSE a

\* parseInt of the text between the brackets of an array declaration: the
\* number its leading digits denote, -1 standing for NaN (no comparison
\* with NaN is true, and none of a length with -1).
RECURSIVE LeadingDigits(_)
LeadingDigits(s) ==
    IF s # <<>> /\ IsDigit(Head(s)) THEN << Head(s) >> \o LeadingDigits(Tail(s)) ELSE <<>>

ParseInt(s) ==
    IF LeadingDigits(TrimStart(s)) = <<>> THEN -1
    ELSE DigitsValue(LeadingDigits(TrimStart(s)))

\* JSON.stringify of a string.
RECURSIVE JsonEscape(_)
JsonEscape(s) ==
    IF s = <<>> THEN <<>>
    ELSE (CASE Head(s) = "\"" -> << "\\", "\"" >>
            [] Head(s) = "\\" -> << "\\", "\\" >>
            [] Head(s) = "\n" -> << "\\", "n" >>
            [] OTHER -> << Head(s) >>) \o JsonEscape(Tail(s))

JsonStringify(s) == << "\"" >> \o JsonEscape(s) \o << "\"" >>

\* JSON.parse of a text JSON.stringify made of a string.
RECURSIVE JsonUnescape(_)
JsonUnescape(s) ==
    IF s = <<>> THEN <<>>
    ELSE IF Head(s) = "\\" /\ Len(s) >= 2
    THEN (IF s[2] = "n" THEN << "\n" >> ELSE << s[2] >>)
             \o JsonUnescape(SubSeq(s, 3, Len(s)))
    ELSE << Head(s) >> \o JsonUnescape(Tail(s))

JsonParse(s) == JsonUnescape(SubSeq(s, 2, Len(s) - 1))


(***************************************************************************)
(* State.                                                                  *)
(***************************************************************************)
VARIABLES
    \* Fields of the client object.
    autoReconnect,    \* this.autoReconnect
    socket,           \* this.socket: 0 for null, else the socket's number
    connected,        \* this.connected
    connecting,       \* this.connecting
    pendingRequests,  \* this.pendingRequests: entries [id, sock, seq, hs]; the
                      \* promise is named by the connection it was written to
                      \* (sock), its place among the frames written there
                      \* (seq) and the attempt whose handshake it is (hs, or 0)
    requestId,        \* this.requestId
    buffer,           \* this.buffer
    \* The sockets created so far, numbered in creation order.
    sockState,        \* "unused", "connecting", "open", "errored" ('error'
                      \* emitted, 'close' due), "destroyed" (destroy() called,
                      \* 'close' due), "closed" ('close' emitted)
    ended,            \* socket.end() was called on it
    timeoutArmed,     \* the setTimeout of the connect() that created it is due
    wire,             \* the frames written to it, in order, while it lives
    replied,          \* how many of its request frames the server answered
    pushed,           \* frames the server wrote on it that answer no request
    sliced,           \* frames _handleData cut from the buffer during its 'data'
    failure,          \* why it is going down: "none", "error", "timeout", "magic"
    handshake,        \* the handshake of the attempt: "none", "sent", "ok", "failed"
    timers,           \* reconnect timers (setTimeout 1000) that are due
    \* Promises still pending, besides those of pendingRequests.
    creator,          \* per socket, while it lives: who called the connect()
                      \* that created it ("user", "timer"), else "none"
    awaiting,         \* per socket: the promise of that connect() is pending
    waiters,          \* the connect() calls attached to an attempt: [by, sock]
    closers,          \* per socket: a disconnect() call waits for its 'close'
    disconnectCalled, \* disconnect() was called at least once
    \* What the last step did.
    last,             \* the handler that ran (op) and the socket it ran for
                      \* (sock); the promises it settled, in order (settled);
                      \* the (kind, payload) pairs it passed to _handleMessage
                      \* (dispatched); the 'error' and 'message' events it
                      \* emitted (events); the socket it created (created, or 0);
                      \* whether it armed a reconnect timer (scheduled); for
                      \* a 'close', why the socket went down (cause) and who
                      \* had created it (origin)
    \* The framing specification.
    frFrames,         \* the frames of the stream
    frStream,         \* the bytes of the stream not yet fed
    frFed,            \* the number of bytes fed
    frOut,            \* the (kind, payload) pairs dispatched so far
    \* The TOON specification.
    toonData,         \* the tree handed to TOONSerializer.serialize
    toonText,          \* the text serialize returned
    toonResult,       \* the tree TOONParser.parse returned
    toonStep,         \* "idle"; "new", "serialized", "parsed" for a tree
                      \* handed to serialize; "text", "parsed text" for a
                      \* text handed to parse
    indentSize        \* this.indentSize of the TOONSerializer

clientVars == << autoReconnect, socket, connected, connecting, pendingRequests,
                 requestId, buffer >>
socketVars == << sockState, ended, timeoutArmed, wire, replied, pushed,
                 sliced, failure, handshake, timers >>
promiseVars == << creator, awaiting, waiters, closers, disconnectCalled, last >>
framingVars == << frFrames, frStream, frFed, frOut >>
toonVars == << toonData, toonText, toonResult, toonStep, indentSize >>
vars == << clientVars, socketVars, promiseVars, framingVars, toonVars >>

\* The state a handler starts from, as one record, so that the handler's
\* statements compose; `last` is started afresh for handler op on socket s.
Cur(op, s) ==
    [autoReconnect |-> autoReconnect, socket |-> socket, connected |-> connected,
     connecting |-> connecting, pendingRequests |-> pendingRequests,
     requestId |-> requestId, buffer |-> buffer, sockState |-> sockState,
     ended |-> ended, timeoutArmed |-> timeoutArmed, wire |-> wire,
     replied |-> replied, pushed |-> pushed, sliced |-> sliced,
     failure |-> failure, handshake |-> handshake, timers |-> timers,
     creator |-> creator, waiters |-> waiters, closers |-> closers,
     disconnectCalled |-> disconnectCalled,
     awaiting |-> awaiting,
     last |-> [op |-> op, sock |-> s, settled |-> <<>>, dispatched |-> <<>>,
               events |-> <<>>, created |-> 0, scheduled |-> FALSE,
               cause |-> "none", origin |-> "none"]]

\* The state a handler leaves behind.
CommitState(st) ==
    /\ autoReconnect' = st.autoReconnect
    /\ socket' = st.socket
    /\ connected' = st.connected
    /\ connecting' = st.connecting
    /\ pendingRequests' = st.pendingRequests
    /\ requestId' = st.requestId
    /\ buffer' = st.buffer
    /\ sockState' = st.sockState
    /\ ended' = st.ended
    /\ timeoutArmed' = st.timeoutArmed
    /\ wire' = st.wire
    /\ replied' = st.replied
    /\ pushed' = st.pushed
    /\ sliced' = st.sliced
    /\ failure' = st.failure
    /\ handshake' = st.handshake
    /\ timers' = st.timers
    /\ creator' = st.creator
    /\ awaiting' = st.awaiting
    /\ waiters' = st.waiters
    /\ closers' = st.closers
    /\ disconnectCalled' = st.disconnectCalled
    /\ last' = st.last

\* A step of the connection specification.
Commit(st) == CommitState(st) /\ UNCHANGED << framingVars, toonVars >>

NoStep == [op |-> "new", sock |-> 0, settled |-> <<>>, dispatched |-> <<>>,
           events |-> <<>>, created |-> 0, scheduled |-> FALSE, cause |-> "none",
           origin |-> "none"]

\* No TOON conversion is under way.
ToonIdle ==
    /\ toonData = Undefined
    /\ toonText = <<>>
    /\ toonResult = Undefined
    /\ toonStep = "idle"
    /\ indentSize = INDENT_SIZE

\* The client after construction, for either value of options.autoReconnect.
Constructed ==
    /\ autoReconnect \in BOOLEAN
    /\ socket = 0
    /\ connected = FALSE
    /\ connecting = FALSE
    /\ pendingRequests = <<>>
    /\ requestId = 0
    /\ buffer = <<>>
    /\ sockState = [s \in Socks |-> "unused"]
    /\ ended = [s \in Socks |-> FALSE]
    /\ timeoutArmed = [s \in Socks |-> FALSE]
    /\ wire = [s \in Socks |-> <<>>]
    /\ replied = [s \in Socks |-> 0]
    /\ pushed = [s \in Socks |-> 0]
    /\ sliced = [s \in Socks |-> 0]
    /\ failure = [s \in Socks |-> "none"]
    /\ handshake = [s \in Socks |-> "none"]
    /\ timers = 0
    /\ creator = [s \in Socks |-> "none"]
    /\ awaiting = [s \in Socks |-> FALSE]
    /\ waiters = <<>>
    /\ closers = [s \in Socks |-> FALSE]
    /\ disconnectCalled = FALSE
    /\ last = NoStep
    /\ frFrames = <<>>
    /\ frStream = <<>>
    /\ frFed = 0
    /\ frOut = <<>>

\* The state after construction.
Init == Constructed /\ ToonIdle

(***************************************************************************)
(* Events and promises.                                                    *)
(***************************************************************************)
\* A promise settled by the step: k is "send", "connect" (the call that
\* created socket sock), "attach" (a call attached to the attempt on sock) or
\* "disconnect"; frame is the number of the inbound frame that settled a
\* request, 0 when no frame did.
Settled(k, by, sock, seq, outcome, val, frame) ==
    [k |-> k, by |-> by, sock |-> sock, seq |-> seq, outcome |-> outcome,
     val |-> val, frame |-> frame]

\* The listeners  once('connect', resolve)  /  once('error', reject)  of the
\* attached connect() calls fire: each pending one settles with `outcome`.
\* A rejected call of the reconnect timer emits 'error' again, to none left.
SettleWaiters(st, outcome, val) ==
    [st EXCEPT !.waiters = <<>>,
               !.last.settled = @ \o
                   [i \in DOMAIN st.waiters |->
                       Settled("attach", st.waiters[i].by, st.waiters[i].sock, 0,
                               outcome, val, 0)]]

\* An 'error' or 'message' event the client emits, as its listeners see it.
Event(name, msgType, data) == [name |-> name, msgType |-> msgType, data |-> data]

\* this.emit('error', ...).
EmitError(st) ==
    SettleWaiters([st EXCEPT !.last.events = Append(@, Event("error", 0, "Error"))],
                  "rejected", "error event")

\* An unsolicited frame dropped without an event.
EmitNothing(st, msgType, data) == st

\* this.emit('message', { type: msgType, data }).
EmitMessage(st, msgType, data) ==
    [st EXCEPT !.last.events = Append(@, Event("message", msgType, data))]

\* this.emit('connect').
EmitConnect(st) == SettleWaiters(st, "resolved", "connect event")

\* resolve() of the promise of the connect() call that created socket s.
ResolveConnect(st, s) ==
    IF ~st.awaiting[s] THEN st
    ELSE [st EXCEPT !.awaiting[s] = FALSE,
                    !.last.settled = Append(@, Settled("connect", st.creator[s], s, 0,
                                                       "resolved", "handshake", 0))]

\* reject(err) of that promise.  A call made by the reconnect timer has the
\* handler  .catch(err => this.emit('error', err))  attached.
RejectConnect(st, s, err) ==
    IF ~st.awaiting[s] THEN st
    ELSE LET st1 == [st EXCEPT !.awaiting[s] = FALSE,
                               !.last.settled = Append(@, Settled("connect",
                                   st.creator[s], s, 0, "rejected", err, 0))]
         IN  IF st.creator[s] = "timer" THEN EmitError(st1) ELSE st1

\* resolve(val) or reject(val) of the promise of a request, by inbound frame
\* number `frame` of the current 'data' event's connection (0: not by a
\* frame).  The promise of a handshake continues into the connect() call
\* that sent it.
Settle(st, req, outcome, val, frame) ==
    LET st1 == [st EXCEPT !.last.settled =
                   Append(@, Settled("send", "user", req.sock, req.seq, outcome,
                                     val, frame))]
    IN  IF req.hs = 0 THEN st1
        ELSE IF outcome = "resolved"
        THEN ResolveConnect([st1 EXCEPT !.handshake[req.hs] = "ok"], req.hs)
        ELSE RejectConnect([st1 EXCEPT !.handshake[req.hs] = "failed"], req.hs, val)

(***************************************************************************)
(* The socket, as the client uses it.                                      *)
(***************************************************************************)
\* socket.write(message) reaches the server: the socket is connecting (the
\* write is queued until 'connect') or open, and end() was not called.
Writable(st, s) ==
    /\ s # 0
    /\ st.sockState[s] \in {"connecting", "open"}
    /\ ~st.ended[s]

\* socket.destroy(): no effect on a socket already destroyed or closed.
Destroy(st, s, cause) ==
    IF s # 0 /\ st.sockState[s] \in {"connecting", "open"}
    THEN [st EXCEPT !.sockState[s] = "destroyed", !.failure[s] = cause]
    ELSE st

(***************************************************************************)
(* _sendMessage, _handleMessage, _handleData.                              *)
(***************************************************************************)
\* The body of _sendMessage past the connected test: encode, write, enqueue.
SendBody(st, msgType, data, hs) ==
    LET message == EncodeFrame(MAGIC, msgType, MsgpackEncode(data))
        s == st.socket
        sent == Writable(st, s)
        req == [id |-> st.requestId, sock |-> s,
                seq |-> IF sent THEN Len(st.wire[s]) + 1 ELSE 0, hs |-> hs]
    IN  [st EXCEPT !.wire = IF sent THEN [@ EXCEPT ![s] = Append(@, message)] ELSE @,
                   !.requestId = @ + 1,
                   !.pendingRequests = Append(@, req),
                   !.handshake = IF hs = 0 THEN @ ELSE [@ EXCEPT ![hs] = "sent"]]

\* A refusal that tests for a socket instead of the connected flag.
RefusesWithoutSocket(st) == st.socket = 0

\* Whether _sendMessage refuses the request.
Refuses(st) == ~st.connected

\* _sendMessage(msgType, data); hs is the attempt whose handshake this is, 0
\* for any other request.
_sendMessage(st, msgType, data, hs) ==
    IF Refuses(st)
    THEN Settle(st, [id |-> -1, sock |-> 0, seq |-> 0, hs |-> hs], "rejected",
                "Not connected to NexaDB", 0)
    ELSE SendBody(st, msgType, data, hs)

\* The error _handleMessage rejects an MSG_ERROR answer with:
\* data.error || 'Unknown error'.
ErrorText(data) ==
    IF data = "{error:boom}" THEN "boom"
    ELSE IF data = "{error:Not found: k}" THEN "Not found: k"
    ELSE "Unknown error"

\* A _handleMessage that empties the queue instead of shifting it.
HandleMessageDroppingQueue(st, msgType, data, frame) ==
    IF st.pendingRequests = <<>>
    THEN [st |-> EmitMessage(st, msgType, data), threw |-> FALSE]
    ELSE [st |-> Settle([st EXCEPT !.pendingRequests = <<>>], Head(st.pendingRequests),
                        IF msgType \in {MSG_SUCCESS, MSG_PONG}
                        THEN "resolved" ELSE "rejected",
                        data, frame),
          threw |-> FALSE]

\* _handleMessage(msgType, data), called for inbound frame number `frame`.
\* Returns the state and whether it threw (data.error on null is a TypeError).
_handleMessage(st, msgType, data, frame) ==
    IF st.pendingRequests = <<>>
    THEN [st |-> EmitMessage(st, msgType, data), threw |-> FALSE]
    ELSE LET request == Head(st.pendingRequests)
             st1 == [st EXCEPT !.pendingRequests = Tail(@)]
         IN  IF msgType = MSG_SUCCESS \/ msgType = MSG_PONG
             THEN [st |-> Settle(st1, request, "resolved", data, frame),
                   threw |-> FALSE]
             ELSE IF msgType = MSG_ERROR
             THEN IF data = "null"
                  THEN [st |-> st1, threw |-> TRUE]
                  ELSE [st |-> Settle(st1, request, "rejected", ErrorText(data), frame),
                        threw |-> FALSE]
             ELSE IF msgType = MSG_NOT_FOUND
             THEN [st |-> Settle(st1, request, "rejected", "Not found", frame),
                   threw |-> FALSE]
             ELSE [st |-> Settle(st1, request, "rejected",
                                 "Unknown response type: " \o ToString(msgType), frame),
                   threw |-> FALSE]

\* A try/catch whose catch clause swallows the decode failure.
HandleFrameSilently(st, s, frame) ==
    LET st1 == [st EXCEPT !.sliced[s] = @ + 1]
    IN  IF ~MsgpackDecodes(frame.payload)
        THEN st1
        ELSE LET payload == MsgpackDecode(frame.payload)
                 st2 == [st1 EXCEPT !.last.dispatched =
                            Append(@, [msgType |-> frame.msgType, data |-> payload])]
             IN  _handleMessage(st2, frame.msgType, payload, st2.sliced[s]).st

\* The try/catch of the _handleData loop on one frame cut during a 'data'
\* event of socket s: decode, dispatch, and emit 'error' on any throw.
HandleFrame(st, s, frame) ==
    LET st1 == [st EXCEPT !.sliced[s] = @ + 1]
    IN  IF ~MsgpackDecodes(frame.payload)
        THEN EmitError(st1)
        ELSE LET payload == MsgpackDecode(frame.payload)
                 st2 == [st1 EXCEPT !.last.dispatched =
                            Append(@, [msgType |-> frame.msgType, data |-> payload])]
                 r == _handleMessage(st2, frame.msgType, payload, st2.sliced[s])
             IN  IF r.threw THEN EmitError(r.st) ELSE r.st

RECURSIVE HandleFrames(_, _, _)
HandleFrames(st, s, frames) ==
    IF frames = <<>> THEN st
    ELSE HandleFrames(HandleFrame(st, s, Head(frames)), s, Tail(frames))

\* _handleData(data) for a 'data' event of socket s.
_handleData(st, s, data) ==
    LET r == SliceFrames(st.buffer \o data, <<>>)
        st1 == HandleFrames([st EXCEPT !.buffer = r.buffer], s, r.frames)
    IN  IF r.corrupt
        THEN Destroy(EmitError(st1), st1.socket, "magic")
        ELSE st1


(***************************************************************************)
(* connect() and disconnect().                                             *)
(***************************************************************************)
\* The number the next socket gets.
NextSock(st) == Cardinality({s \in Socks : st.sockState[s] # "unused"}) + 1

\* A connect() without the test of the connecting flag.
StartsAttemptWhileConnecting(st) == ~st.connected

\* Whether connect() reaches net.createConnection.
StartsAttempt(st) == ~st.connected /\ ~st.connecting

\* connect(), called by the application ("user") or by the reconnect timer.
connect(st, by) ==
    IF st.connected
    THEN [st EXCEPT !.last.settled = Append(@, Settled("noop", by, st.socket, 0,
                                                       "resolved", "connected", 0))]
    ELSE IF ~StartsAttempt(st)
    THEN [st EXCEPT !.waiters = Append(@, [by |-> by, sock |-> st.socket])]
    ELSE LET s == NextSock(st)
         IN  [st EXCEPT !.connecting = TRUE,
                        !.timeoutArmed[s] = TRUE,
                        !.socket = s,
                        !.sockState[s] = "connecting",
                        !.creator[s] = by,
                        !.awaiting[s] = TRUE,
                        !.last.created = s]

\* disconnect().
disconnect(st) ==
    LET s == st.socket
        st1 == [st EXCEPT !.autoReconnect = FALSE, !.disconnectCalled = TRUE]
    IN  IF s = 0
        THEN [st1 EXCEPT !.last.settled = Append(@, Settled("disconnect", "user", 0, 0,
                                                            "resolved", "no socket", 0))]
        ELSE [st1 EXCEPT !.closers[s] = TRUE,
                         !.ended[s] = @ \/ st.sockState[s] \in {"connecting", "open"}]

(***************************************************************************)
(* The handlers connect() installs on socket s.                            *)
(***************************************************************************)
\* A 'connect' handler that leaves the connecting flag as it was.
OnConnectKeepingConnecting(st, s, early) ==
    LET st1 == [st EXCEPT !.sockState[s] = "open", !.timeoutArmed[s] = FALSE,
                          !.connected = TRUE]
        st2 == EmitConnect(st1)
        st3 == IF early THEN _sendMessage(st2, MSG_PING, "{}", 0) ELSE st2
    IN  _sendMessage(st3, MSG_CONNECT, "{username:root,password:nexadb123}", s)

\* 'connect'.  `early` says whether a 'connect' listener of the application
\* submits a request when the event is emitted.
OnConnect(st, s, early) ==
    LET st1 == [st EXCEPT !.sockState[s] = "open", !.timeoutArmed[s] = FALSE,
                          !.connected = TRUE, !.connecting = FALSE]
        st2 == EmitConnect(st1)
        st3 == IF early THEN _sendMessage(st2, MSG_PING, "{}", 0) ELSE st2
    IN  _sendMessage(st3, MSG_CONNECT, "{username:root,password:nexadb123}", s)

\* 'error'.
OnError(st, s) ==
    LET st1 == [st EXCEPT !.sockState[s] = "errored",
                          !.failure[s] = "error", !.timeoutArmed[s] = FALSE,
                          !.connecting = FALSE, !.connected = FALSE]
    IN  RejectConnect(EmitError(st1), s, "socket error")

\* A forEach that stops after the first entry.
RejectHeadOnly(st, reqs) ==
    IF reqs = <<>> THEN st
    ELSE Settle(st, Head(reqs), "rejected", "Connection closed", 0)

\* The forEach of the 'close' handler: reject every pending request.
RECURSIVE RejectAll(_, _)
RejectAll(st, reqs) ==
    IF reqs = <<>> THEN st
    ELSE RejectAll(Settle(st, Head(reqs), "rejected", "Connection closed", 0),
                   Tail(reqs))

\* A 'close' handler that does not test autoReconnect.
SchedulesReconnectAlways(st) == ~st.connecting

\* Whether the 'close' handler arms the reconnect timer.
SchedulesReconnect(st) == st.autoReconnect /\ ~st.connecting

\* 'close', and the once('close', resolve) of the disconnect() calls.  The
\* bookkeeping of the dead connection is dropped with it.
OnClose(st, s) ==
    LET st1 == [st EXCEPT !.sockState[s] = "closed",
                          !.wire[s] = <<>>, !.replied[s] = 0, !.pushed[s] = 0,
                          !.sliced[s] = 0, !.failure[s] = "none",
                          !.last.cause = st.failure[s],
                          !.last.origin = st.creator[s],
                          !.connected = FALSE]
        st2 == [RejectAll(st1, st1.pendingRequests) EXCEPT !.pendingRequests = <<>>]
        st3 == IF SchedulesReconnect(st2)
               THEN [st2 EXCEPT !.timers = @ + 1, !.last.scheduled = TRUE]
               ELSE st2
        st4 == IF st3.closers[s]
               THEN [st3 EXCEPT !.closers[s] = FALSE,
                                !.last.settled = Append(@, Settled("disconnect", "user",
                                    s, 0, "resolved", "close", 0))]
               ELSE st3
    IN  [st4 EXCEPT !.handshake[s] = "none", !.creator[s] = "none"]

\* The setTimeout callback of the connect() call that created socket s.
OnTimeout(st, s) ==
    LET st1 == [st EXCEPT !.timeoutArmed[s] = FALSE]
        st2 == RejectConnect(st1, s, "Connection timeout")
    IN  Destroy(st2, st2.socket, "timeout")

(***************************************************************************)
(* The server and the network.                                             *)
(***************************************************************************)
\* No 'close' is due: socket events and timers are delivered only then.
IoReady == \A s \in Socks : sockState[s] \notin {"errored", "destroyed"}

\* The frames the server may write as its i-th answer on a connection.  A
\* success answer carries i as its payload.
ReplyFrames(i) ==
    { [magic |-> MAGIC, msgType |-> MSG_SUCCESS, payload |-> << i >>],
      [magic |-> MAGIC, msgType |-> MSG_ERROR, payload |-> ErrorBytes],
      [magic |-> MAGIC, msgType |-> MSG_SUCCESS, payload |-> <<>>],
      [magic |-> BAD_MAGIC, msgType |-> MSG_SUCCESS, payload |-> << i >>] }

\* The frames the server may write unasked.
PushFrames == { [magic |-> MAGIC, msgType |-> MSG_SUCCESS, payload |-> << 100 >>] }

\* The server answers the next request frame it received on connection s,
\* and the socket reports 'data' with the answer.
ServerReply(s) ==
    /\ IoReady
    /\ sockState[s] = "open"
    /\ replied[s] < Len(wire[s])
    /\ \E f \in ReplyFrames(replied[s] + 1) :
          Commit(_handleData([Cur("data", s) EXCEPT !.replied[s] = @ + 1], s,
                             EncodeFrame(f.magic, f.msgType, f.payload)))

\* The server writes a frame that answers no request, and the socket
\* reports 'data' with it.
ServerPush(s) ==
    /\ IoReady
    /\ sockState[s] = "open"
    /\ pushed[s] < MaxPushes
    /\ \E f \in PushFrames :
          Commit(_handleData([Cur("data", s) EXCEPT !.pushed[s] = @ + 1], s,
                             EncodeFrame(f.magic, f.msgType, f.payload)))

(***************************************************************************)
(* Actions of the connection specification.                                *)
(***************************************************************************)
UserMsgTypes == {MSG_PING}

\* The application calls connect().
UserConnect ==
    /\ StartsAttempt(Cur("connect", 0)) => NextSock(Cur("connect", 0)) <= MaxSockets
    /\ (~connected /\ connecting) => Len(waiters) < MaxWaiters
    /\ Commit(connect(Cur("connect", 0), "user"))

\* A reconnect timer fires:  this.connect().catch(...).
ReconnectTimer ==
    /\ IoReady
    /\ timers > 0
    /\ StartsAttempt(Cur("timer", 0)) => NextSock(Cur("timer", 0)) <= MaxSockets
    /\ (~connected /\ connecting) => Len(waiters) < MaxWaiters
    /\ Commit(connect([Cur("timer", 0) EXCEPT !.timers = @ - 1], "timer"))

\* The application calls disconnect().
UserDisconnect ==
    \E st \in {disconnect(Cur("disconnect", 0))} : Commit(st)

\* The application submits a request.
UserSend ==
    /\ connected => requestId < MaxRequests
    /\ \E mt \in UserMsgTypes : Commit(_sendMessage(Cur("send", 0), mt, "{}", 0))

\* Socket s reports 'connect'.
SocketConnect(s) ==
    /\ IoReady
    /\ sockState[s] = "connecting"
    /\ \E early \in BOOLEAN :
          /\ requestId + (IF early THEN 1 ELSE 0) < MaxRequests
          /\ Commit(OnConnect(Cur("connected", s), s, early))

\* Socket s reports 'error' (refused, reset, ...).
SocketError(s) ==
    /\ IoReady
    /\ sockState[s] \in {"connecting", "open"}
    /\ Commit(OnError(Cur("error", s), s))

\* Socket s reports 'close': after its 'error', after destroy(), or because
\* the server closed the connection (also in answer to end()).
SocketClose(s) ==
    /\ \/ sockState[s] \in {"errored", "destroyed"}
       \/ sockState[s] = "open" /\ IoReady
    /\ Commit(OnClose(Cur("close", s), s))

\* The establishment timeout of the connect() that created socket s fires.
ConnectTimeout(s) ==
    /\ IoReady
    /\ timeoutArmed[s]
    /\ Commit(OnTimeout(Cur("timeout", s), s))

Next ==
    \/ UserConnect
    \/ ReconnectTimer
    \/ UserDisconnect
    \/ UserSend
    \/ \E s \in Socks : SocketConnect(s)
    \/ \E s \in Socks : SocketError(s)
    \/ \E s \in Socks : SocketClose(s)
    \/ \E s \in Socks : ConnectTimeout(s)
    \/ \E s \in Socks : ServerReply(s)
    \/ \E s \in Socks : ServerPush(s)

Spec == Init /\ [][Next]_vars

\* An attempt in flight ends: the socket reports 'connect' or 'error', or
\* the establishment timeout fires.
AttemptEnds(s) ==
    /\ sockState[s] = "connecting"
    /\ (SocketConnect(s) \/ SocketError(s) \/ ConnectTimeout(s))

\* The 'close' that follows 'error' or destroy() is reported.
CloseReported(s) ==
    /\ sockState[s] \in {"errored", "destroyed"}
    /\ SocketClose(s)

\* The connection specification with the events the runtime owes delivered:
\* every attempt ends, every due 'close' is reported, every armed reconnect
\* timer fires, and the server answers every request it received.  The
\* calls of the application are under no obligation.
SpecLive ==
    /\ Spec
    /\ \A s \in Socks : WF_vars(AttemptEnds(s))
    /\ \A s \in Socks : WF_vars(CloseReported(s))
    /\ \A s \in Socks : WF_vars(ServerReply(s))
    /\ WF_vars(ReconnectTimer)


(***************************************************************************)
(* The framing specification: a connected client, its handshake answered,  *)
(* receives a stream of well-formed frames cut into arbitrary chunks.      *)
(***************************************************************************)
FrFrameSet ==
    [magic : {MAGIC}, msgType : {MSG_SUCCESS, MSG_NOT_FOUND},
     payload : {<<>>, << 7 >>, << 192 >>, ErrorBytes}]

\* The sequences of at most n frames of the set `frames`.
RECURSIVE SeqsUpTo(_, _)
SeqsUpTo(frames, n) ==
    IF n = 0 THEN {<<>>}
    ELSE LET shorter == SeqsUpTo(frames, n - 1)
         IN  shorter \cup {Append(q, f) : q \in {x \in shorter : Len(x) = n - 1},
                                           f \in frames}

FrSeqs(n) == SeqsUpTo(FrFrameSet, n)

RECURSIVE FrBytes(_)
FrBytes(frames) ==
    IF frames = <<>> THEN <<>>
    ELSE EncodeFrame(Head(frames).magic, Head(frames).msgType, Head(frames).payload)
             \o FrBytes(Tail(frames))

\* The client after connect(), 'connect' on socket 1 and a success answer to
\* the handshake.
Established ==
    /\ autoReconnect = TRUE
    /\ socket = 1
    /\ connected = TRUE
    /\ connecting = FALSE
    /\ pendingRequests = <<>>
    /\ requestId = 1
    /\ buffer = <<>>
    /\ sockState = [s \in Socks |-> IF s = 1 THEN "open" ELSE "unused"]
    /\ ended = [s \in Socks |-> FALSE]
    /\ timeoutArmed = [s \in Socks |-> FALSE]
    /\ wire = [s \in Socks |-> IF s = 1
                  THEN << EncodeFrame(MAGIC, MSG_CONNECT, CredentialBytes) >>
                  ELSE <<>>]
    /\ replied = [s \in Socks |-> IF s = 1 THEN 1 ELSE 0]
    /\ pushed = [s \in Socks |-> 0]
    /\ sliced = [s \in Socks |-> IF s = 1 THEN 1 ELSE 0]
    /\ failure = [s \in Socks |-> "none"]
    /\ handshake = [s \in Socks |-> IF s = 1 THEN "ok" ELSE "none"]
    /\ timers = 0
    /\ creator = [s \in Socks |-> IF s = 1 THEN "user" ELSE "none"]
    /\ awaiting = [s \in Socks |-> FALSE]
    /\ waiters = <<>>
    /\ closers = [s \in Socks |-> FALSE]
    /\ disconnectCalled = FALSE
    /\ last = NoStep
    /\ ToonIdle

\* The established client, about to receive the stream.
FrInit ==
    /\ Established
    /\ frFrames \in FrSeqs(FrMaxFrames) \ {<<>>}
    /\ frStream = FrBytes(frFrames)
    /\ frFed = 0
    /\ frOut = <<>>

\* Socket 1 reports 'data' with the next k bytes of the stream.
FrFeed ==
    /\ IoReady
    /\ sockState[1] = "open"
    /\ frStream # <<>>
    /\ \E k \in 1..Len(frStream) :
          LET st == _handleData(Cur("data", 1), 1, SubSeq(frStream, 1, k))
          IN  /\ CommitState(st)
              /\ frOut' = frOut \o st.last.dispatched
              /\ frStream' = SubSeq(frStream, k + 1, Len(frStream))
              /\ frFed' = frFed + k
              /\ UNCHANGED << frFrames, toonVars >>

FrNext == FrFeed

SpecFraming == FrInit /\ [][FrNext]_vars


(***************************************************************************)
(* The corruption specification: the same client, which may have a request *)
(* pending, receives a stream in which at least one frame carries a wrong  *)
(* magic.                                                                  *)
(***************************************************************************)
CoFrameSet ==
    [magic : {MAGIC, BAD_MAGIC}, msgType : {MSG_SUCCESS}, payload : {<<>>, << 7 >>}]

CoInit ==
    /\ Established
    /\ frFrames \in {q \in SeqsUpTo(CoFrameSet, FrMaxFrames) :
                        \E i \in DOMAIN q : q[i].magic # MAGIC}
    /\ frStream = FrBytes(frFrames)
    /\ frFed = 0
    /\ frOut = <<>>

CoNext ==
    \/ UserSend
    \/ FrFeed

SpecCorrupt == CoInit /\ [][CoNext]_vars


(***************************************************************************)
(* The dispatch specification: the established client issues get() calls   *)
(* and the server answers each with a frame of any kind and payload, or    *)
(* writes a frame unasked, or closes the connection.                       *)
(***************************************************************************)
\* get(collection, key): its request.
SendRead(st) == _sendMessage(st, MSG_READ, "{collection:c,key:k}", 0)

\* String.includes('Not found'), on the messages of the model.
IncludesNotFound(message) == message \in {"Not found", "Not found: k"}

\* response.document, on the payloads of the model (none has the field).
Document(response) == "undefined"

\* get(collection, key): how the call settles, given how the promise of its
\* request settled.  response.document on null is a TypeError, which the
\* catch clause receives like a rejection.
get(outcome, val) ==
    LET threw == outcome = "rejected" \/ val = "null"
        message == IF outcome = "rejected" THEN val
                   ELSE "Cannot read properties of null"
    IN  IF ~threw THEN [outcome |-> "resolved", val |-> Document(val)]
        ELSE IF IncludesNotFound(message) THEN [outcome |-> "resolved", val |-> "null"]
        ELSE [outcome |-> "rejected", val |-> message]

DiKinds == {MSG_SUCCESS, MSG_PONG, MSG_ERROR, MSG_NOT_FOUND, MSG_DUPLICATE}

DiPayloads == {<<>>, << 7 >>, << 192 >>, ErrorBytes, NotFoundTextBytes}

\* The established client, no stream.
DiInit ==
    /\ Established
    /\ frFrames = <<>>
    /\ frStream = <<>>
    /\ frFed = 0
    /\ frOut = <<>>

\* The application calls get().
UserGet ==
    /\ connected => requestId < DiMaxRequests
    /\ Commit(SendRead(Cur("get", 0)))

\* The server answers the next request it received on connection s with a
\* frame of any kind, and the socket reports 'data' with the answer.
DiReply(s) ==
    /\ IoReady
    /\ sockState[s] = "open"
    /\ replied[s] < Len(wire[s])
    /\ \E kind \in DiKinds, payload \in DiPayloads :
          Commit(_handleData([Cur("data", s) EXCEPT !.replied[s] = @ + 1], s,
                             EncodeFrame(MAGIC, kind, payload)))

DiNext ==
    \/ UserGet
    \/ \E s \in Socks : DiReply(s)
    \/ \E s \in Socks : ServerPush(s)
    \/ \E s \in Socks : SocketClose(s)

SpecDispatch == DiInit /\ [][DiNext]_vars


(***************************************************************************)
(* The header specification: the established client sends requests, and    *)
(* every frame it writes is handed back to its own _handleData, in chunks  *)
(* of any size.  frFrames holds the (kind, data) arguments of the calls.   *)
(***************************************************************************)
HdKinds == {MSG_READ, MSG_PING}

HdData == {"{}", "null", "{collection:c,key:k}"}

HdInit ==
    /\ Established
    /\ frFrames = <<>>
    /\ frStream = <<>>
    /\ frFed = 0
    /\ frOut = <<>>

\* The application calls _sendMessage(msgType, data); the frame written to
\* the socket joins the stream.
HdSend ==
    /\ requestId < HdMaxRequests
    /\ \E msgType \in HdKinds, data \in HdData :
          LET st == _sendMessage(Cur("send", 0), msgType, data, 0)
          IN  /\ CommitState(st)
              /\ frFrames' = Append(frFrames, [msgType |-> msgType, data |-> data])
              /\ frStream' = frStream \o st.wire[1][Len(st.wire[1])]
              /\ UNCHANGED << frFed, frOut, toonVars >>

HdNext ==
    \/ HdSend
    \/ FrFeed

SpecHeader == HdInit /\ [][HdNext]_vars


(***************************************************************************)
(* TOONSerializer.                                                         *)
(***************************************************************************)
\* String(value) for a value that is not a primitive:
\* Object.prototype.toString and Array.prototype.toString.
RECURSIVE ToJsString(_)
ToJsString(value) ==
    CASE value.t \in {"null", "undefined"} -> <<>>
      [] value.t = "bool" ->
            IF value.v THEN << "t", "r", "u", "e" >> ELSE << "f", "a", "l", "s", "e" >>
      [] value.t = "num" -> NumberToString(value.v)
      [] value.t = "str" -> value.v
      [] value.t = "obj" ->
            << "[", "o", "b", "j", "e", "c", "t", " ", "O", "b", "j", "e", "c", "t", "]" >>
      [] value.t = "arr" ->
            Join([i \in DOMAIN value.v |-> ToJsString(value.v[i])], << "," >>)

_serializePrimitive(value) ==
    IF value.t \in {"null", "undefined"} THEN << "n", "u", "l", "l" >>
    ELSE IF value.t = "bool"
    THEN (IF value.v THEN << "t", "r", "u", "e" >> ELSE << "f", "a", "l", "s", "e" >>)
    ELSE IF value.t = "str"
    THEN (IF Includes(value.v, ",") \/ Includes(value.v, "\n") \/ Includes(value.v, "\"")
          THEN JsonStringify(value.v)
          ELSE value.v)
    ELSE IF value.t = "num" THEN NumberToString(value.v)
    ELSE ToJsString(value)

\* The keys of the items, each once, in the order first seen.
RECURSIVE AddUnseen(_, _)
AddUnseen(allKeys, keys) ==
    IF keys = <<>> THEN allKeys
    ELSE AddUnseen(IF \E i \in DOMAIN allKeys : allKeys[i] = Head(keys)
                   THEN allKeys ELSE Append(allKeys, Head(keys)),
                   Tail(keys))

RECURSIVE AllKeys(_)
AllKeys(items) ==
    IF items = <<>> THEN <<>>
    ELSE AddUnseen(AllKeys(SubSeq(items, 1, Len(items) - 1)), Keys(items[Len(items)]))

\* rowValues.join(',') for one item of a tabular array.
Row(item, allKeys) ==
    Join([i \in DOMAIN allKeys |-> _serializePrimitive(Lookup(item, allKeys[i]))],
         << "," >>)

_serializeTabularArray(arr, indentLevel) ==
    IF arr.v = <<>> THEN <<>>
    ELSE LET allKeys == AllKeys(arr.v)
             indent == Spaces(indentLevel * indentSize)
         IN  Join([i \in DOMAIN arr.v |-> indent \o Row(arr.v[i], allKeys)], << "\n" >>)

RECURSIVE serialize(_, _)
RECURSIVE _serializeObject(_, _)
RECURSIVE ObjectLines(_, _)
RECURSIVE _serializeArrayWithKey(_, _, _)
RECURSIVE _serializeArray(_, _)

\* The lines array of _serializeObject for the given entries.
ObjectLines(entries, indentLevel) ==
    IF entries = <<>> THEN <<>>
    ELSE LET key == Head(entries)[1]
             value == Head(entries)[2]
             indent == Spaces(indentLevel * indentSize)
         IN  (IF IsObject(value)
              THEN << indent \o key \o << ":" >>,
                      _serializeObject(value, indentLevel + 1) >>
              ELSE IF IsArray(value)
              THEN << indent \o _serializeArrayWithKey(key, value, indentLevel) >>
              ELSE << indent \o key \o << ":", " " >> \o _serializePrimitive(value) >>)
                 \o ObjectLines(Tail(entries), indentLevel)

_serializeObject(obj, indentLevel) ==
    Join(ObjectLines(obj.v, indentLevel), << "\n" >>)

_serializeArrayWithKey(key, arr, indentLevel) ==
    LET items == arr.v
        length == NatToString(Len(items))
        indent == Spaces((indentLevel + 1) * indentSize)
    IN  IF items = <<>> THEN key \o << "[", "0", "]", ":" >>
        ELSE IF (\A i \in DOMAIN items : IsObject(items[i])) /\ AllKeys(items) # <<>>
        THEN Join(<< key \o << "[" >> \o length \o << "]", "{" >>
                         \o Join(AllKeys(items), << "," >>) \o << "}", ":" >> >>
                     \o [i \in DOMAIN items |-> indent \o Row(items[i], AllKeys(items))],
                  << "\n" >>)
        ELSE IF \A i \in DOMAIN items : IsPrimitive(items[i])
        THEN key \o << "[" >> \o length \o << "]", ":", " " >>
                 \o Join([i \in DOMAIN items |-> _serializePrimitive(items[i])], << "," >>)
        ELSE Join(<< key \o << "[" >> \o length \o << "]", ":" >> >>
                     \o [i \in DOMAIN items |->
                            indent \o serialize(items[i], indentLevel + 1)],
                  << "\n" >>)

_serializeArray(arr, indentLevel) ==
    LET items == arr.v
        indent == Spaces(indentLevel * indentSize)
    IN  IF items = <<>> THEN << "[", "]" >>
        ELSE IF \A i \in DOMAIN items : IsObject(items[i])
        THEN _serializeTabularArray(arr, indentLevel)
        ELSE IF \A i \in DOMAIN items : IsPrimitive(items[i])
        THEN Join([i \in DOMAIN items |-> _serializePrimitive(items[i])], << "," >>)
        ELSE Join([i \in DOMAIN items |->
                      indent \o serialize(items[i], indentLevel + 1)],
                  << "\n" >>)

serialize(data, indentLevel) ==
    IF IsObject(data) THEN _serializeObject(data, indentLevel)
    ELSE IF IsArray(data) THEN _serializeArray(data, indentLevel)
    ELSE _serializePrimitive(data)


(***************************************************************************)
(* TOONParser.                                                             *)
(***************************************************************************)
\* line.length - line.trimStart().length
IndentOf(line) == Len(line) - Len(TrimStart(line))

_parsePrimitive(valueStr) ==
    LET s == Trim(valueStr)
    IN  IF s # <<>> /\ s[1] = "\"" /\ s[Len(s)] = "\"" THEN Str(JsonParse(s))
        ELSE IF s = << "t", "r", "u", "e" >> THEN Bool(TRUE)
        ELSE IF s = << "f", "a", "l", "s", "e" >> THEN Bool(FALSE)
        ELSE IF s = << "n", "u", "l", "l" >> THEN Null
        ELSE IF IsNumberText(s) THEN Num(ParseNumber(s))
        ELSE Str(s)

\* The loop of _parseCSVRow over the characters of the row.
RECURSIVE CsvLoop(_, _, _, _)
CsvLoop(rowStr, values, current, inQuotes) ==
    IF rowStr = <<>>
    THEN (IF current # <<>> THEN Append(values, Trim(current)) ELSE values)
    ELSE IF Head(rowStr) = "\"" THEN CsvLoop(Tail(rowStr), values, current, ~inQuotes)
    ELSE IF Head(rowStr) = "," /\ ~inQuotes
    THEN CsvLoop(Tail(rowStr), Append(values, Trim(current)), <<>>, inQuotes)
    ELSE CsvLoop(Tail(rowStr), values, Append(current, Head(rowStr)), inQuotes)

_parseCSVRow(rowStr) == CsvLoop(rowStr, <<>>, <<>>, FALSE)

\* For a key the serializer wrote: the brackets and braces are in order.
_parseArrayDeclaration(keyStr) ==
    [arrayKey |-> Substring(keyStr, 0, IndexOf(keyStr, "[")),
     length |-> ParseInt(Substring(keyStr, IndexOf(keyStr, "[") + 1, IndexOf(keyStr, "]"))),
     fields |-> IF Includes(keyStr, "{")
                THEN LET parts == Split(Substring(keyStr, IndexOf(keyStr, "{") + 1,
                                                  IndexOf(keyStr, "}")), ",")
                     IN  [i \in DOMAIN parts |-> Trim(parts[i])]
                ELSE <<>>]

\* The forEach that maps the values of a row to the fields.
RECURSIVE RowObject(_, _, _)
RowObject(fields, rowValues, n) ==
    IF n = 0 THEN <<>>
    ELSE IF n <= Len(rowValues)
    THEN SetKey(RowObject(fields, rowValues, n - 1), fields[n], _parsePrimitive(rowValues[n]))
    ELSE RowObject(fields, rowValues, n - 1)

\* A row scan that reads no row and hands back the index of the header.
RowLoopEndingOnHeader(lines, rowIdx, rowIndent, fields, length, rows) ==
    [rows |-> rows, rowIdx |-> rowIdx - 1]

\* The loop over the rows of a tabular array; indices are 0-based.
RECURSIVE RowLoop(_, _, _, _, _, _)
RowLoop(lines, rowIdx, rowIndent, fields, length, rows) ==
    IF rowIdx < Len(lines) /\ Len(rows) < length
    THEN LET rowLine == lines[rowIdx + 1]
         IN  RowLoop(lines, rowIdx + 1, rowIndent, fields, length,
                     IF IndentOf(rowLine) >= rowIndent /\ Trim(rowLine) # <<>>
                     THEN Append(rows, Obj(RowObject(fields, _parseCSVRow(Trim(rowLine)),
                                                     Len(fields))))
                     ELSE rows)
    ELSE [rows |-> rows, rowIdx |-> rowIdx]

\* The while loop of _parseLines from index idx (0-based) with the entries
\* of obj collected so far; Iteration is one pass through its body at a line
\* idx < lines.length: the entries and the index it leaves, and whether it
\* left the loop by break.
RECURSIVE LineLoop(_, _, _, _), Iteration(_, _, _, _)
Iteration(lines, idx, baseIndent, obj) ==
    LET line == lines[idx + 1]
        indent == IndentOf(line)
        lineContent == Trim(line)
        colonIdx == IndexOf(lineContent, ":")
        key == Trim(Substring(lineContent, 0, colonIdx))
        valuePart == Trim(Substring(lineContent, colonIdx + 1, Len(lineContent)))
        continue(i, o) == [obj |-> o, idx |-> i, break |-> FALSE]
    IN  IF Trim(line) = <<>> THEN continue(idx + 1, obj)
        ELSE IF indent < baseIndent THEN [obj |-> obj, idx |-> idx, break |-> TRUE]
        ELSE IF indent > baseIndent THEN continue(idx + 1, obj)
        ELSE IF ~Includes(lineContent, ":") THEN continue(idx + 1, obj)
        ELSE IF Includes(key, "[") /\ Includes(key, "]")
        THEN LET decl == _parseArrayDeclaration(key)
             IN  IF Includes(key, "{")
                 THEN LET r == RowLoop(lines, idx + 1, indent + 2, decl.fields,
                                       decl.length, <<>>)
                      IN  continue(r.rowIdx, SetKey(obj, decl.arrayKey, Arr(r.rows)))
                 ELSE LET values == _parseCSVRow(valuePart)
                      IN  continue(idx + 1,
                                   SetKey(obj, decl.arrayKey,
                                          IF valuePart # <<>>
                                          THEN Arr([i \in DOMAIN values |->
                                                       _parsePrimitive(values[i])])
                                          ELSE Arr(<<>>)))
        ELSE IF /\ valuePart = <<>>
                /\ idx + 1 < Len(lines)
                /\ IndentOf(lines[idx + 2]) > indent
        THEN LET r == LineLoop(lines, idx + 1, indent + 2, <<>>)
             IN  continue(r.idx, SetKey(obj, key, Obj(r.obj)))
        ELSE continue(idx + 1,
                      IF valuePart # <<>>
                      THEN SetKey(obj, key, _parsePrimitive(valuePart))
                      ELSE obj)

LineLoop(lines, idx, baseIndent, obj) ==
    IF idx >= Len(lines) THEN [obj |-> obj, idx |-> idx]
    ELSE LET r == Iteration(lines, idx, baseIndent, obj)
         IN  IF r.break THEN [obj |-> r.obj, idx |-> r.idx]
             ELSE LineLoop(lines, r.idx, baseIndent, r.obj)

_parseLines(lines, startIdx, baseIndent) == LineLoop(lines, startIdx, baseIndent, <<>>)

parse(toonStr) == Obj(_parseLines(Split(Trim(toonStr), "\n"), 0, 0).obj)


(***************************************************************************)
(* The TOON specification: a tree is handed to serialize and the text to   *)
(* parse.  The client is not involved.                                     *)
(***************************************************************************)
\* The primitive values: null, booleans, an integer and a fraction, a plain
\* string and three the serializer quotes (a comma; a comma and a quote; a
\* comma and a newline).  None is a string that reads as a value of another
\* type.
Leaves ==
    << Null, Bool(TRUE), Num(70), Num(15), Str(<< "a" >>), Str(<< "b", ",", "c" >>),
       Str(<< "b", ",", "\"" >>), Str(<< "b", ",", "\n", "c" >>),
       Bool(FALSE), Num(-20) >>

Leaf(i) == Leaves[((i - 1) % Len(Leaves)) + 1]

Shapes ==
    << "primitive", "mapping", "sequence", "records", "table", "ragged",
       "rows of sequences", "mixed", "empty sequence", "empty mapping" >>

\* The tree of the given shape over the primitives a and b.
Tree(shape, a, b) ==
    CASE shape = "primitive" -> a
      [] shape = "mapping" -> Obj(<< << << "k" >>, a >>, << << "m" >>, b >> >>)
      [] shape = "sequence" -> Arr(<< a, b >>)
      [] shape = "records" ->
            Arr(<< Obj(<< << << "m" >>, a >> >>), Obj(<< << << "m" >>, b >> >>) >>)
      [] shape = "table" ->
            Arr(<< Obj(<< << << "k" >>, a >>, << << "m" >>, b >> >>),
                   Obj(<< << << "k" >>, b >>, << << "m" >>, a >> >>) >>)
      [] shape = "ragged" ->
            Arr(<< Obj(<< << << "m" >>, a >> >>),
                   Obj(<< << << "k" >>, b >>, << << "m" >>, a >> >>),
                   Obj(<< << << "k" >>, b >> >>) >>)
      [] shape = "rows of sequences" ->
            Arr(<< Obj(<< << << "m" >>, Arr(<< a, b >>) >> >>) >>)
      [] shape = "mixed" -> Arr(<< a, Obj(<< << << "m" >>, b >> >>) >>)
      [] shape = "empty sequence" -> Arr(<<>>)
      [] shape = "empty mapping" -> Obj(<<>>)

\* x as the only value of a mapping, depth times over.
RECURSIVE Nested(_, _)
Nested(x, depth) ==
    IF depth = 0 THEN x ELSE Obj(<< << << "w" >>, Nested(x, depth - 1) >> >>)

\* What a hand-written text may carry between the brackets of an array
\* declaration in place of the length.
Annotations == << << "x" >>, <<>>, << "x", "2" >> >>

\* The text with the annotation between its first brackets replaced.
WithAnnotation(text, annotation) ==
    Substring(text, 0, IndexOf(text, "[") + 1) \o annotation
        \o Substring(text, IndexOf(text, "]"), Len(text))

\* The indentation units a caller may construct the serializer with.
IndentSizes == {1, INDENT_SIZE, 2 * INDENT_SIZE}

\* The input is a tree for serialize, or a text for parse: that of a keyed
\* sequence of mappings whose length annotation is not a number (toonData
\* then holds the tree the text was written for).  A text is nested up to
\* one level deeper than a tree, so that its array declaration also stands
\* below a key line.  The client, which takes no part, is as constructed
\* with the default options.
ToInit ==
    /\ Constructed
    /\ autoReconnect
    /\ toonResult = Undefined
    /\ indentSize \in IndentSizes
    /\ \E n \in DOMAIN Shapes, i \in 1..ToMaxLeaves, j \in 1..ToMaxLeaves :
          \/ \E depth \in 0..ToMaxDepth :
                /\ toonData = Nested(Tree(Shapes[n], Leaf(i), Leaf(j)), depth)
                /\ toonText = <<>>
                /\ toonStep = "new"
          \/ \E depth \in 1..(ToMaxDepth + 1), a \in DOMAIN Annotations :
                /\ Shapes[n] \in {"records", "table", "ragged"}
                /\ toonData = Nested(Tree(Shapes[n], Leaf(i), Leaf(j)), depth)
                /\ toonText = WithAnnotation(serialize(toonData, 0), Annotations[a])
                /\ toonStep = "text"

ToUnchanged == UNCHANGED << clientVars, socketVars, promiseVars, framingVars >>

\* new TOONSerializer().serialize(data)
ToSerialize ==
    /\ toonStep = "new"
    /\ toonText' = serialize(toonData, 0)
    /\ toonStep' = "serialized"
    /\ UNCHANGED << toonData, toonResult, indentSize >>
    /\ ToUnchanged

\* new TOONParser().parse(text)
ToParse ==
    /\ toonStep \in {"serialized", "text"}
    /\ toonResult' = parse(toonText)
    /\ toonStep' = IF toonStep = "text" THEN "parsed text" ELSE "parsed"
    /\ UNCHANGED << toonData, toonText, indentSize >>
    /\ ToUnchanged

ToNext ==
    \/ ToSerialize
    \/ ToParse

SpecToon == ToInit /\ [][ToNext]_vars


(***************************************************************************)
(* Properties.                                                             *)
(***************************************************************************)
Live == {s \in Socks : sockState[s] \in {"connecting", "open"}}

SettledBy(k) == {i \in DOMAIN last.settled : last.settled[i].k = k}

\* C1.  FIFO correlation: on a connection on which the server writes only
\* answers, one per request and in request order, the request written i-th
\* is settled by the i-th inbound frame and by no other, and a request that
\* resolves, resolves with that frame's payload (the i-th success answer
\* carries i).
FifoCorrelation ==
    \A i \in SettledBy("send") :
        LET x == last.settled[i]
        IN  (x.frame # 0 /\ pushed[last.sock] = 0) =>
                /\ x.sock = last.sock
                /\ x.frame = x.seq
                /\ x.outcome = "resolved" => x.val = ToString(x.seq)

\* C2.  When the 'close' of a transport that disconnect() did not ask for is
\* handled with auto-reconnect enabled, a reconnect timer has been armed for
\* it (unless the application has already started another attempt), every
\* request that was pending has been rejected with 'Connection closed', and
\* the queue is empty.
ReconnectScheduledOnClose ==
    (last.op = "close" /\ autoReconnect) =>
        /\ (last.scheduled /\ timers >= 1) \/ Live # {}
        /\ pendingRequests = <<>>
        /\ \A i \in SettledBy("send") :
              /\ last.settled[i].outcome = "rejected"
              /\ last.settled[i].val = "Connection closed"

\* C3.  At most one transport is connecting or established at any time.
AtMostOneTransport == Cardinality(Live) <= 1

\* C3, witness: a connect() call has just attached to the attempt in flight
\* instead of creating a socket.
AttachedToAttempt ==
    /\ last.op \in {"connect", "timer"}
    /\ last.created = 0
    /\ waiters # <<>>
    /\ \E s \in Socks : sockState[s] = "connecting"

\* C4.  A connect() call, whether it created the socket or attached to the
\* attempt in flight, resolves only once the handshake sent on that
\* connection has been answered with success.
ConnectResolvesAfterHandshake ==
    \A i \in SettledBy("connect") \cup SettledBy("attach") :
        LET x == last.settled[i]
        IN  x.outcome = "resolved" => handshake[x.sock] = "ok"

\* C5.  Once disconnect() has been called, no reconnect timer starts a new
\* transport connection attempt.
NoReconnectAfterDisconnect ==
    disconnectCalled => ~(last.op = "timer" /\ last.created # 0)

\* C6.  Every disconnect() call eventually resolves.  The call resolves on
\* the 'close' event of the socket it ended and on nothing else, so it can
\* still resolve only while that event is yet to be emitted.
DisconnectCanResolve ==
    \A s \in Socks : closers[s] => sockState[s] # "closed"

\* C7.  A request submitted while connected is false is rejected with the
\* not-connected failure; nothing is written to any transport, the pending
\* queue is unchanged and no request id is consumed.
RefusedSendLeavesNoTrace ==
    [][(last'.op = "send" /\ ~connected) =>
          /\ Len(last'.settled) = 1
          /\ last'.settled[1].outcome = "rejected"
          /\ last'.settled[1].val = "Not connected to NexaDB"
          /\ wire' = wire
          /\ pendingRequests' = pendingRequests
          /\ requestId' = requestId]_vars

\* C7, witness: a request was refused after a connection had been lost with
\* requests accepted on it.
RefusedSend ==
    /\ last.op = "send"
    /\ ~connected
    /\ requestId > 0
    /\ Len(last.settled) = 1
    /\ last.settled[1].val = "Not connected to NexaDB"

\* C8.  A connection-level failure (socket error, establishment timeout,
\* magic mismatch) ends with the connection closed and every pending request
\* rejected, and, when auto-reconnect is enabled and disconnect() was not
\* called, with a reconnect timer armed for it (unless the application has
\* already started another attempt).
FailureTriggersReconnect ==
    (last.op = "close" /\ last.cause \in {"error", "timeout", "magic"}) =>
        /\ sockState[last.sock] = "closed"
        /\ pendingRequests = <<>>
        /\ (autoReconnect /\ ~disconnectCalled) => (last.scheduled \/ Live # {})

\* C9.  With auto-reconnect enabled and disconnect() never called, a failed
\* reconnection attempt is followed by another attempt: when the 'close' of
\* a socket the reconnect timer created has been handled, a reconnect timer
\* is due or another attempt is in flight.
ReconnectionRepeats ==
    (/\ last.op = "close"
     /\ last.origin = "timer"
     /\ last.cause \in {"error", "timeout"}
     /\ autoReconnect
     /\ ~disconnectCalled) =>
        \/ timers > 0
        \/ Live # {}

\* The frames of `frames` that lie wholly within the first n bytes.
RECURSIVE WholeFrames(_, _)
WholeFrames(frames, n) ==
    IF frames = <<>> THEN <<>>
    ELSE LET size == HEADER_LEN + Len(Head(frames).payload)
         IN  IF size > n THEN <<>>
             ELSE << Head(frames) >> \o WholeFrames(Tail(frames), n - size)

\* The (kind, payload) pairs of the frames whose payload decodes.
RECURSIVE Pairs(_)
Pairs(frames) ==
    IF frames = <<>> THEN <<>>
    ELSE (IF MsgpackDecodes(Head(frames).payload)
          THEN << [msgType |-> Head(frames).msgType,
                   data |-> MsgpackDecode(Head(frames).payload)] >>
          ELSE <<>>) \o Pairs(Tail(frames))

\* C10.  Framing is independent of chunking: however the stream is cut into
\* 'data' events, the pairs dispatched so far are exactly those of the
\* frames whose 12 + payloadLength bytes have all been fed, in order.
FramingIndependentOfChunking ==
    /\ frOut = Pairs(WholeFrames(frFrames, frFed))
    /\ frStream = <<>> => buffer = <<>>

\* C10, witness: a stream of two frames was fed in several chunks, the
\* last of which completed the second frame only.
ChunkedStreamFed ==
    /\ Len(frFrames) = 2
    /\ frStream = <<>>
    /\ Len(frOut) = 2
    /\ Len(last.dispatched) = 1

\* The first frame of the stream with a wrong magic (0: none).
FirstBad ==
    IF \E i \in DOMAIN frFrames : frFrames[i].magic # MAGIC
    THEN CHOOSE i \in DOMAIN frFrames :
            /\ frFrames[i].magic # MAGIC
            /\ \A j \in 1..(i - 1) : frFrames[j].magic = MAGIC
    ELSE 0

\* C11.  Once all the bytes of a frame with a wrong magic have been fed (the
\* buffer holds its header and its declared payload), the 'data' handler
\* that received the last of them has emitted 'error' and destroyed the
\* socket, only the frames before it have been passed to _handleMessage, and
\* no request is settled by that frame or by a later one.
MagicMismatchTearsDown ==
    LET b == FirstBad
        before == SubSeq(frFrames, 1, b - 1)
    IN  (b # 0 /\ frFed >= Len(FrBytes(SubSeq(frFrames, 1, b)))) =>
            /\ sockState[1] = "destroyed"
            /\ frOut = Pairs(before)
            /\ last.op = "data" =>
                  /\ \E i \in DOMAIN last.events : last.events[i].name = "error"
                  /\ \A i \in SettledBy("send") : last.settled[i].frame <= b
            /\ Len(pendingRequests) >= requestId - 1 - Len(Pairs(before))

\* C11, witness: a frame with a wrong magic and the frame after it were fed
\* while a request was pending.
CorruptFrameFed ==
    /\ Len(frFrames) = 2
    /\ frFrames[1].magic # MAGIC
    /\ frFrames[2].magic = MAGIC
    /\ frStream = <<>>
    /\ pendingRequests # <<>>
    /\ sockState[1] = "destroyed"

\* The step is a 'data' handler that passed one frame of a kind in `kinds`
\* to _handleMessage while the pending queue was not empty.
Answered(kinds) ==
    /\ last'.op = "data"
    /\ pendingRequests # <<>>
    /\ Len(last'.dispatched) = 1
    /\ last'.dispatched[1].msgType \in kinds

\* The step settled the request that was at the head of the queue, and no
\* other, with `outcome`.
HeadSettled(outcome) ==
    /\ Len(last'.settled) = 1
    /\ last'.settled[1].k = "send"
    /\ last'.settled[1].sock = Head(pendingRequests).sock
    /\ last'.settled[1].seq = Head(pendingRequests).seq
    /\ last'.settled[1].outcome = outcome

Errors(events) == SelectSeq(events, LAMBDA ev : ev.name = "error")

\* The frames of `frames` whose payload msgpack.decode rejects.
Undecodable(frames) == SelectSeq(frames, LAMBDA f : ~MsgpackDecodes(f.payload))

\* C13.  A 'data' handler that completes frames of which some fail to decode
\* emits one 'error' per such frame, still passes every other completed
\* frame, those after the failing one included, to _handleMessage with its
\* decoded payload, leaves in the buffer only the bytes of the frame not
\* yet complete, and leaves the connection open.
DecodeFailureIsContained ==
    [][LET done == WholeFrames(frFrames, frFed')
           new == SubSeq(done, sliced[1], Len(done))
       IN  (last'.op = "data" /\ Undecodable(new) # <<>>) =>
              /\ Len(Errors(last'.events)) = Len(Undecodable(new))
              /\ last'.dispatched = Pairs(new)
              /\ sliced'[1] = Len(done) + 1
              /\ buffer' = SubSeq(FrBytes(frFrames), Len(FrBytes(done)) + 1, frFed')
              /\ connected' /\ socket' = 1 /\ sockState'[1] = "open"]_vars

\* C13, witness: one 'data' event completed a frame that fails to decode and
\* the frame after it, which was dispatched.
LaterFrameDecoded ==
    /\ Len(frFrames) = 2
    /\ ~MsgpackDecodes(frFrames[1].payload)
    /\ MsgpackDecodes(frFrames[2].payload)
    /\ frStream = <<>>
    /\ Errors(last.events) # <<>>
    /\ Len(last.dispatched) = 1
    /\ buffer = <<>>

\* C14.  Every complete frame with the right magic that a 'data' handler
\* cuts from the buffer while the pending queue is not empty removes the
\* head of the queue, and only it, and settles it, whatever its payload.
EveryFrameSettlesHead ==
    [][(/\ last'.op = "data"
        /\ pendingRequests # <<>>
        /\ sliced'[last'.sock] = sliced[last'.sock] + 1) =>
          /\ pendingRequests' = Tail(pendingRequests)
          /\ HeadSettled("resolved") \/ HeadSettled("rejected")]_vars

\* C15.  Dispatch on the kind of the answer, for the request at the head of
\* the queue: success and pong resolve it with the decoded payload; error
\* rejects it, with the message the server supplied when the payload has
\* one; not-found rejects it with 'Not found'; any other kind rejects it
\* with 'Unknown response type: <kind>'.
KindDispatch ==
    [][Answered(DiKinds) =>
          LET kind == last'.dispatched[1].msgType
              data == last'.dispatched[1].data
              val == last'.settled[1].val
          IN  /\ kind \in {MSG_SUCCESS, MSG_PONG} =>
                    HeadSettled("resolved") /\ val = data
              /\ kind = MSG_ERROR =>
                    /\ HeadSettled("rejected")
                    /\ data = "{error:boom}" => val = "boom"
                    /\ data = "{error:Not found: k}" => val = "Not found: k"
              /\ kind = MSG_NOT_FOUND =>
                    HeadSettled("rejected") /\ val = "Not found"
              /\ kind \notin {MSG_SUCCESS, MSG_PONG, MSG_ERROR, MSG_NOT_FOUND} =>
                    /\ HeadSettled("rejected")
                    /\ val = "Unknown response type: " \o ToString(kind)]_vars

\* C16.  A frame that is decoded while the pending queue is empty is emitted
\* as one 'message' event with its kind and payload and settles nothing,
\* and nothing of it stays behind in the queue or the buffer; a request is
\* settled by a frame only in the 'data' handler that cut that frame, and
\* only if the request was pending when the handler started.
UnsolicitedFrameIsEmitted ==
    [][/\ (last'.op = "data" /\ pendingRequests = <<>> /\ Len(last'.dispatched) = 1) =>
             /\ last'.events = << Event("message", last'.dispatched[1].msgType,
                                        last'.dispatched[1].data) >>
             /\ last'.settled = <<>>
             /\ pendingRequests' = <<>>
             /\ buffer' = <<>>
       /\ \A i \in DOMAIN last'.settled :
             last'.settled[i].frame # 0 =>
                /\ last'.op = "data"
                /\ last'.settled[i].frame = sliced'[last'.sock]
                /\ sliced'[last'.sock] = sliced[last'.sock] + 1
                /\ \E j \in DOMAIN pendingRequests :
                      pendingRequests[j].seq = last'.settled[i].seq]_vars

\* C16, witness: a frame arrived unasked while nothing was pending, then a
\* request was sent and settled by the frame that followed.
SettledByLaterFrame ==
    /\ pushed[1] = 1
    /\ replied[1] = 2
    /\ sliced[1] = 3
    /\ last.op = "data"
    /\ last.dispatched = << [msgType |-> MSG_SUCCESS, data |-> "7"] >>
    /\ Len(last.settled) = 1
    /\ last.settled[1].seq = 2
    /\ last.settled[1].frame = 3

\* C17.  A client constructed with autoReconnect = false never has a
\* reconnect timer: until disconnect() is called none is due, and from any
\* state with autoReconnect false and no timer due, no step arms one and
\* only a connect() call of the application creates a socket.
NoReconnectWhenDisabled ==
    /\ []((~autoReconnect /\ ~disconnectCalled) => timers = 0)
    /\ [][(~autoReconnect /\ timers = 0) =>
             /\ timers' = 0
             /\ ~last'.scheduled
             /\ last'.created # 0 => last'.op = "connect"]_vars

\* C17, witness: with autoReconnect false from the start, a connection that
\* had requests pending failed and its 'close' was handled.
ClosedWithoutReconnect ==
    /\ ~autoReconnect
    /\ ~disconnectCalled
    /\ last.op = "close"
    /\ last.cause = "error"
    /\ SettledBy("send") # {}
    /\ timers = 0

\* C18.  Every request of the dispatch specification is that of a get()
\* call.  The call resolves to null exactly when its request was settled by
\* a frame of the not-found kind, and when its request is rejected for any
\* other reason the call rejects with the same failure.
GetNullIffNotFound ==
    \A i \in SettledBy("send") :
        LET x == last.settled[i]
            g == get(x.outcome, x.val)
            notFound == x.frame # 0 /\ last.dispatched[1].msgType = MSG_NOT_FOUND
        IN  /\ (g.outcome = "resolved" /\ g.val = "null") <=> notFound
            /\ (x.outcome = "rejected" /\ ~notFound) =>
                   (g.outcome = "rejected" /\ g.val = x.val)

\* C19.  Every frame _sendMessage writes is a 12-byte header followed by the
\* encoded payload: the magic, the version, the requested kind, two zero
\* flag bytes and the payload's length in bytes, big-endian.  Handing the
\* frames written back to _handleData dispatches the same kinds and
\* payloads, in order, and leaves no byte in the buffer.
HeaderRoundTrip ==
    /\ Len(wire[1]) = Len(frFrames) + 1
    /\ \A i \in DOMAIN frFrames :
          LET message == wire[1][i + 1]
              payload == MsgpackEncode(frFrames[i].data)
          IN  /\ Len(message) = HEADER_LEN + Len(payload)
              /\ SubSeq(message, 1, 4) = << 78, 69, 88, 65 >>
              /\ message[5] = VERSION
              /\ message[6] = frFrames[i].msgType
              /\ message[7] = 0 /\ message[8] = 0
              /\ SubSeq(message, 9, 12) = << 0, 0, 0, Len(payload) >>
              /\ SubSeq(message, 13, Len(message)) = payload
    /\ Len(frOut) <= Len(frFrames)
    /\ frOut = SubSeq(frFrames, 1, Len(frOut))
    /\ frStream = <<>> => (frOut = frFrames /\ buffer = <<>>)

\* Two different requests were written, fed back and dispatched.
TwoFramesCameBack ==
    /\ frStream = <<>>
    /\ frFed > 0
    /\ Len(frOut) = 2
    /\ frOut[1].msgType # frOut[2].msgType
    /\ frOut[1].data = "{collection:c,key:k}"
    /\ frOut[2].data = "null"

\* C20.  For every tree x of the TOON specification (primitives, mappings,
\* sequences at the top level or below, mixed sequences, nested mappings,
\* none with a string that reads as another type), parse(serialize(x)) is
\* value-equal to x, the serializer having the default indentation unit.
TOONRoundTrip ==
    (toonStep = "parsed" /\ indentSize = INDENT_SIZE) => ValueEq(toonResult, toonData)

\* Whether x is a sequence of at least one mapping, none of them empty.
IsTable(x) ==
    /\ IsArray(x)
    /\ x.v # <<>>
    /\ \A i \in DOMAIN x.v : IsObject(x.v[i]) /\ x.v[i].v # <<>>

\* The header line of a tabular block of n rows under the given key.
TableHeader(key, n, columns) ==
    key \o << "[" >> \o NatToString(n) \o << "]", "{" >>
        \o Join(columns, << "," >>) \o << "}", ":" >>

\* C21.  A sequence of N mappings passed directly to serialize yields a
\* header line carrying [N] and the column list in braces, followed by
\* exactly N comma-joined rows, and parsing that text yields the original
\* N mappings.
TopLevelTableHasHeader ==
    IsTable(toonData) =>
        LET lines == Split(toonText, "\n")
            n == Len(toonData.v)
        IN  /\ toonStep \in {"serialized", "parsed"} =>
                  /\ Len(lines) = n + 1
                  /\ lines[1] = TableHeader(<<>>, n, AllKeys(toonData.v))
                  /\ \A i \in 1..n :
                        TrimStart(lines[i + 1]) = Row(toonData.v[i], AllKeys(toonData.v))
            /\ toonStep = "parsed" => ValueEq(toonResult, toonData)

\* The strings with a comma among the primitives of a tree.
RECURSIVE CommaStrings(_)
CommaStrings(x) ==
    CASE x.t = "str" -> IF Includes(x.v, ",") THEN {x.v} ELSE {}
      [] x.t = "obj" -> UNION {CommaStrings(x.v[i][2]) : i \in DOMAIN x.v}
      [] x.t = "arr" -> UNION {CommaStrings(x.v[i]) : i \in DOMAIN x.v}
      [] OTHER -> {}

\* Whether sub occurs in text.
Occurs(sub, text) ==
    \E i \in 1..(Len(text) - Len(sub) + 1) : SubSeq(text, i, i + Len(sub) - 1) = sub

\* The trees in which a string is a scalar mapping value, an item of an
\* inline scalar list or a field of a tabular row: a mapping at the top,
\* whose values are primitives, non-empty mappings of the same kind,
\* sequences of primitives, or sequences of mappings that have the same
\* keys and primitive values.
RECURSIVE Regular(_, _)
Regular(x, top) ==
    CASE x.t = "obj" ->
            /\ top \/ x.v # <<>>
            /\ \A i \in DOMAIN x.v : Regular(x.v[i][2], FALSE)
      [] x.t = "arr" ->
            /\ ~top
            /\ \/ \A i \in DOMAIN x.v : IsPrimitive(x.v[i])
               \/ \A i \in DOMAIN x.v :
                     /\ IsObject(x.v[i])
                     /\ Keys(x.v[i]) = Keys(x.v[1])
                     /\ \A j \in DOMAIN x.v[i].v : IsPrimitive(x.v[i].v[j][2])
      [] OTHER -> ~top

\* C22.  A string with a comma is written wrapped in quotes and parses back
\* to the identical string, as a scalar mapping value, as an item of an
\* inline scalar list and as a field of a tabular row, also when it holds
\* a quote character or a newline besides the comma; the serializer has
\* the default indentation unit.
QuotedStringsRoundTrip ==
    (Regular(toonData, TRUE) /\ CommaStrings(toonData) # {} /\ indentSize = INDENT_SIZE) =>
        /\ toonStep \in {"serialized", "parsed"} =>
              \A s \in CommaStrings(toonData) : Occurs(JsonStringify(s), toonText)
        /\ toonStep = "parsed" => ValueEq(toonResult, toonData)

\* The tree inside the mappings with the single key w that wrap it, and the
\* number of those mappings.
RECURSIVE Unwrapped(_, _)
Unwrapped(x, depth) ==
    IF x.t = "obj" /\ Len(x.v) = 1 /\ x.v[1][1] = << "w" >>
    THEN Unwrapped(x.v[1][2], depth + 1)
    ELSE [tree |-> x, depth |-> depth]

\* The fields of a row: the text between the commas that stand outside a
\* quoted string.
RECURSIVE RowFields(_, _, _, _)
RowFields(row, current, inQuotes, escaped) ==
    IF row = <<>> THEN << current >>
    ELSE IF Head(row) = "," /\ ~inQuotes
    THEN << current >> \o RowFields(Tail(row), <<>>, FALSE, FALSE)
    ELSE RowFields(Tail(row), Append(current, Head(row)),
                   IF Head(row) = "\"" /\ ~escaped THEN ~inQuotes ELSE inQuotes,
                   inQuotes /\ ~escaped /\ Head(row) = "\\")

\* Where key first occurs among the keys of the items: the item, then the
\* place inside the item.
FirstSeenAt(items, key) ==
    LET i == CHOOSE i \in DOMAIN items :
                 /\ HasKey(items[i].v, key)
                 /\ \A h \in 1..(i - 1) : ~HasKey(items[h].v, key)
        j == CHOOSE j \in DOMAIN items[i].v : items[i].v[j][1] = key
    IN  << i, j >>

Before(p, q) == p[1] < q[1] \/ (p[1] = q[1] /\ p[2] < q[2])

\* Whether columns is the union of the keys of the items, each once, in the
\* order first seen.
IsFirstSeenUnion(columns, items) ==
    /\ \A i \in DOMAIN items : \A j \in DOMAIN items[i].v :
          \E c \in DOMAIN columns : columns[c] = items[i].v[j][1]
    /\ \A c \in DOMAIN columns : \E i \in DOMAIN items : HasKey(items[i].v, columns[c])
    /\ \A c, d \in DOMAIN columns :
          c < d => Before(FirstSeenAt(items, columns[c]), FirstSeenAt(items, columns[d]))

\* C23.  In the tabular block of a sequence of mappings under a key, the
\* header lists the union of the keys of the mappings in first-seen order,
\* every row has exactly one field per column, in column order, and the
\* field of a column whose key the mapping lacks is the null token.
TabularBlockLayout ==
    LET u == Unwrapped(toonData, 0)
        items == u.tree.v
        lines == Split(toonText, "\n")
        header == TrimStart(lines[u.depth])
        columns == Split(Substring(header, IndexOf(header, "{") + 1, IndexOf(header, "}")),
                         ",")
    IN  (u.depth >= 1 /\ IsTable(u.tree) /\ toonStep \in {"serialized", "parsed"}) =>
            /\ Len(lines) = u.depth + Len(items)
            /\ IsFirstSeenUnion(columns, items)
            /\ header = TableHeader(<< "w" >>, Len(items), columns)
            /\ \A i \in DOMAIN items :
                  LET fields == RowFields(TrimStart(lines[u.depth + i]), <<>>, FALSE, FALSE)
                  IN  /\ Len(fields) = Len(columns)
                      /\ \A c \in DOMAIN columns :
                            fields[c] = IF HasKey(items[i].v, columns[c])
                                        THEN _serializePrimitive(Lookup(items[i], columns[c]))
                                        ELSE << "n", "u", "l", "l" >>

\* What toonResult holds when parse threw instead of returning.
Thrown == [t |-> "error", v |-> 0]

\* C24.  Parsing a text whose array declaration carries a length annotation
\* that is not a number ends in a failure: parse does not return a tree.
MalformedLengthFails ==
    toonStep = "parsed text" => toonResult = Thrown

IsSend(x) == x.k = "send"

\* The requests among the promises a step settled, in the order settled.
Sends(settled) == SelectSeq(settled, IsSend)

\* C25.  A 'close' handler rejects every entry of the pending-request queue
\* once, with 'Connection closed', in queue order, and leaves the queue
\* empty.
CloseRejectsQueueInOrder ==
    [][last'.op = "close" =>
          LET sends == Sends(last'.settled)
          IN  /\ pendingRequests' = <<>>
              /\ Len(sends) = Len(pendingRequests)
              /\ \A i \in DOMAIN sends :
                    /\ sends[i].sock = pendingRequests[i].sock
                    /\ sends[i].seq = pendingRequests[i].seq
                    /\ sends[i].outcome = "rejected"
                    /\ sends[i].val = "Connection closed"
                    /\ sends[i].frame = 0]_vars

\* A 'close' found two requests pending and rejected both.
TwoRejectedAtClose ==
    /\ last.op = "close"
    /\ Len(Sends(last.settled)) = 2
    /\ Sends(last.settled)[1].seq < Sends(last.settled)[2].seq
    /\ pendingRequests = <<>>

\* C26.  Every connect() call eventually settles: the call that created an
\* attempt, and every call attached to an attempt in flight.
ConnectEventuallySettles ==
    /\ \A s \in Socks : awaiting[s] ~> ~awaiting[s]
    /\ (waiters # <<>>) ~> (waiters = <<>>)

\* C27.  The connecting flag is true only while an attempt is in flight:
\* once the socket of the attempt was established, reported an error or was
\* destroyed by the establishment timeout, connecting is false.
ConnectingOnlyInFlight ==
    connecting => \E s \in Socks : sockState[s] = "connecting"

\* C28.  The receive buffer belongs to one connection: when a socket has
\* just reported 'connect', the buffer holds no byte received on an
\* earlier connection.
BufferEmptyAtConnect ==
    last.op = "connected" => buffer = <<>>

\* C29.  Whenever _handleData returns with at least 12 bytes in the buffer
\* whose first four differ from the magic, the 'error' event was emitted and
\* the socket destroyed, whatever payload length the header declares and
\* however many payload bytes are in the buffer.
BadMagicDetectedOnHeader ==
    (last.op = "data" /\ Len(buffer) >= HEADER_LEN /\ MagicMismatch(buffer)) =>
        /\ Errors(last.events) # <<>>
        /\ sockState[last.sock] = "destroyed"
        /\ failure[last.sock] = "magic"

\* The places among the promises settled by the step where the request
\* `req` of the queue was settled.
SettlingsOf(req) ==
    {k \in DOMAIN last'.settled :
        /\ last'.settled[k].k = "send"
        /\ last'.settled[k].sock = req.sock
        /\ last'.settled[k].seq = req.seq}

\* C30.  No request is lost: a step that removes an entry from the pending
\* queue settles its promise, once, and a step settles the promise of no
\* entry it leaves in the queue; this for every kind and payload of the
\* answer.
NoRequestIsLost ==
    [][\A i \in DOMAIN pendingRequests :
          LET req == pendingRequests[i]
              kept == \E j \in DOMAIN pendingRequests' : pendingRequests'[j].id = req.id
          IN  Cardinality(SettlingsOf(req)) = IF kept THEN 0 ELSE 1]_vars


\* C31.  After every handler, the pending queue is empty whenever the
\* client is not connected, also between a socket's 'error' and its 'close'.
QueueEmptyWhenNotConnected ==
    ~connected => pendingRequests = <<>>


\* C32.  On every connection the handshake is the first frame written, and
\* no other request is written before the handshake was answered with a
\* success response.
HandshakeBeforeRequests ==
    \A s \in Socks :
        /\ wire[s] # <<>> => ReadUInt8(wire[s][1], 5) = MSG_CONNECT
        /\ Len(wire[s]) > 1 => handshake[s] = "ok"


\* Whether the step rejected the promise of a connect() call: of the call
\* that created an attempt, or of a call attached to one.
ConnectRejected(settled) ==
    \E k \in DOMAIN settled :
        /\ settled[k].k \in {"connect", "attach"}
        /\ settled[k].outcome = "rejected"

\* C33.  A handler that rejects a connect() call (transport error,
\* establishment timeout or failed handshake) leaves connected false, so
\* that requests are refused.
RejectedConnectLeavesClosed ==
    ConnectRejected(last.settled) => ~connected


\* C34.  The flags connected and connecting are never both true.
NotConnectedAndConnecting ==
    ~(connected /\ connecting)

\* A second attempt was established after the first one's socket had
\* closed: both flags were set and reset twice.
SecondAttemptEstablished ==
    /\ last.op = "connected"
    /\ last.sock = 2
    /\ sockState[1] = "closed"
    /\ connected
    /\ ~connecting


\* The lines parse splits the text into.
ParsedLines == Split(Trim(toonText), "\n")

\* The values of baseIndent that tell the lines apart: 0, the indentation of
\* each line, and the indentation a nested call is given below each line.
BaseIndentsOf(lines) ==
    {0} \cup {IndentOf(lines[i]) : i \in DOMAIN lines}
        \cup {IndentOf(lines[i]) + 2 : i \in DOMAIN lines}

\* C35.  TOONParser.parse terminates: on every text, at every line and for
\* every base indentation, one pass through the loop of _parseLines either
\* leaves the loop or moves the line index forward by at least one and not
\* past the number of lines, the row scan of a tabular block and the nested
\* call included.
ParseAdvances ==
    toonStep \in {"serialized", "text", "parsed", "parsed text"} =>
        LET lines == ParsedLines
            bases == BaseIndentsOf(lines)
        IN  \A idx \in 0..(Len(lines) - 1) : \A baseIndent \in bases :
                LET r == Iteration(lines, idx, baseIndent, <<>>)
                IN  r.break \/ (idx < r.idx /\ r.idx <= Len(lines))

\* parse returned on a text whose second line is nested one column deep,
\* less than the two columns the nested call expects, and declares a
\* tabular array with a length that is not a number.
ParsedShortIndentAndBadLength ==
    /\ toonStep = "parsed text"
    /\ toonResult # Undefined
    /\ Len(ParsedLines) >= 3
    /\ IndentOf(ParsedLines[1]) = 0
    /\ IndentOf(ParsedLines[2]) = 1
    /\ Includes(ParsedLines[2], "{")
    /\ _parseArrayDeclaration(Trim(ParsedLines[2])).length = -1


\* Whether no string of the tree holds a quote character or a newline.
StringsOnOneLine(x) ==
    \A s \in CommaStrings(x) : ~Includes(s, "\"") /\ ~Includes(s, "\n")

\* C36.  For every indentation unit the serializer is constructed with, the
\* text written for a tree of nested mappings, scalar lists and tabular
\* blocks (its strings free of quotes and newlines) parses back to the
\* same tree.
RoundTripForEveryIndentSize ==
    (toonStep = "parsed" /\ Regular(toonData, TRUE) /\ StringsOnOneLine(toonData)) =>
        ValueEq(toonResult, toonData)


=============================================================================
